---------------------------- MODULE Spec2Model ----------------------------
(* A model of js-tools: the SVG path editor (src/svg-path-editor.js) and    *)
(* the preset manager (src/unnamed/part_000).                               *)
(*                                                                          *)
(* A JavaScript string is a sequence of one-character strings, so that the  *)
(* regular expression of parsePath, split, trim, endsWith and the template  *)
(* literals of generatePath are computed character by character.            *)
(* A JavaScript number, NaN and undefined are the records Num(n), NaN and   *)
(* Undefined. Numbers are integers: the decimal point and exponents are     *)
(* outside the modelled alphabet.                                           *)
EXTENDS Integers, Sequences, FiniteSets, TLC

VARIABLES
    d,            \* [Editors -> string]: the live 'd' attribute of each path element
    markers,      \* [Editors -> Seq(marker)]: the children of each markers group
    isDragging,   \* [Editors -> BOOLEAN]: closure variable of init
    activeMarker, \* [Editors -> marker or NoMarker]: closure variable of init
    lastCall,     \* [Editors -> record]: what each editor's last operation was given and returned
    edits,        \* number of writes of a 'd' attribute so far
    event,        \* history: the last pointer event or call on the editors
    hit,          \* [Editors -> marker or NoMarker]: history, the circle the last pointer-down
                  \* on a marker of the editor's group hit, until the next pointer-up
    pc,           \* position of the parse / generate / parse pipeline
    inputDesc,    \* how the input string of the pipeline was built (segments)
    parsed,       \* parsePath(d)
    generated,    \* generatePath(parsed, id) with the live attribute d
    reparsed,     \* parsePath(generated)
    presets,      \* [Managers -> Seq([name, data])]: own properties of the presets object, in creation order
    presetCounter, \* [Managers -> Nat]
    dom,          \* [Managers -> record]: which elements the selectors of a manager's config find
    listeners,    \* [Managers -> record]: the click handlers setup has attached, and the prefix they close over
    selectOptions, \* [Managers -> Seq(name)]: the options of the preset select after the placeholder
    selectValue,  \* [Managers -> name]: the value of the preset select (empty: the placeholder)
    lastOp,       \* [Managers -> record]: the last operation on a manager and the calls it made
    savedNames,   \* [Managers -> Seq(name)]: history, the distinct names in the order of their first save
    clickNames,   \* [Managers -> Seq(name)]: history, the name each save click stored under
    saves         \* number of direct savePreset calls so far

pathVars == <<d, markers, isDragging, activeMarker, lastCall, edits, event, hit>>
pipeVars == <<pc, inputDesc, parsed, generated, reparsed>>
presetVars == <<presets, presetCounter, dom, listeners, selectOptions, selectValue,
                lastOp, savedNames, clickNames, saves>>
vars == <<d, markers, isDragging, activeMarker, lastCall, edits, event, hit,
          pc, inputDesc, parsed, generated, reparsed,
          presets, presetCounter, dom, listeners, selectOptions, selectValue,
          lastOp, savedNames, clickNames, saves>>

-----------------------------------------------------------------------------
(* JavaScript values of the path editor *)

Num(n) == [t |-> "number", v |-> n]
NaN == [t |-> "NaN", v |-> 0]
Undefined == [t |-> "undefined", v |-> 0]

-----------------------------------------------------------------------------
(* Characters and strings *)

Digits == <<"0", "1", "2", "3", "4", "5", "6", "7", "8", "9">>
DigitSet == {Digits[i] : i \in 1..10}

\* [MmLlCcAaZz] of the regular expression
CmdLetters == {"M", "m", "L", "l", "C", "c", "A", "a", "Z", "z"}

\* [A-Za-z] restricted to the letters that occur in the model: the command
\* letters and the letters of "NaN" and "undefined"
Letters == CmdLetters \cup {"N", "u", "n", "d", "e", "f", "i"}

\* \s restricted to the model's alphabet
Spaces == {" "}

IsSpace(ch) == ch \in Spaces

\* [\s,] of the split
Separators == Spaces \cup {","}

RECURSIVE TrimLeft(_)
TrimLeft(s) ==
    IF s # <<>> /\ IsSpace(Head(s)) THEN TrimLeft(Tail(s)) ELSE s

RECURSIVE TrimRight(_)
TrimRight(s) ==
    IF s # <<>> /\ IsSpace(s[Len(s)]) THEN TrimRight(SubSeq(s, 1, Len(s) - 1)) ELSE s

\* String.prototype.trim
Trim(s) == TrimRight(TrimLeft(s))

\* String.prototype.endsWith('Z')
EndsWithZ(s) == s # <<>> /\ s[Len(s)] = "Z"

RECURSIVE DigitsOf(_)
DigitsOf(n) ==
    IF n < 10 THEN <<Digits[n + 1]>> ELSE DigitsOf(n \div 10) \o <<Digits[(n % 10) + 1]>>

\* Number to string, as a template literal does for an integer
IntToStr(n) == IF n < 0 THEN <<"-">> \o DigitsOf(-n) ELSE DigitsOf(n)

\* `${value}` of a template literal
ToStr(val) ==
    CASE val.t = "number" -> IntToStr(val.v)
      [] val.t = "NaN" -> <<"N", "a", "N">>
      [] OTHER -> <<"u", "n", "d", "e", "f", "i", "n", "e", "d">>

DigitValue(ch) == CHOOSE k \in 0..9 : Digits[k + 1] = ch

RECURSIVE DigitsValue(_)
DigitsValue(s) ==
    IF s = <<>> THEN 0
    ELSE 10 * DigitsValue(SubSeq(s, 1, Len(s) - 1)) + DigitValue(s[Len(s)])

AllDigits(s) == s # <<>> /\ \A k \in 1..Len(s) : s[k] \in DigitSet

\* Number(token): the empty string is 0, a decimal integer with an optional
\* sign is its value, anything else is NaN
ToNumber(s) ==
    IF s = <<>> THEN Num(0)
    ELSE IF AllDigits(s) THEN Num(DigitsValue(s))
    ELSE IF Head(s) = "-" /\ AllDigits(Tail(s)) THEN Num(-DigitsValue(Tail(s)))
    ELSE IF Head(s) = "+" /\ AllDigits(Tail(s)) THEN Num(DigitsValue(Tail(s)))
    ELSE NaN

\* The first index >= i of s whose character is not in set, Len(s) + 1 if none
RECURSIVE SkipIn(_, _, _)
SkipIn(s, i, set) ==
    IF i <= Len(s) /\ s[i] \in set THEN SkipIn(s, i + 1, set) ELSE i

\* The first index >= i of s whose character is in set, Len(s) + 1 if none
RECURSIVE SkipNotIn(_, _, _)
SkipNotIn(s, i, set) ==
    IF i <= Len(s) /\ s[i] \notin set THEN SkipNotIn(s, i + 1, set) ELSE i

\* s.split(/[\s,]+/): the pieces between the maximal runs of separators; the
\* empty string gives one empty piece, a leading or trailing run an empty piece
RECURSIVE Split(_)
Split(s) ==
    LET i == SkipNotIn(s, 1, Separators)
    IN IF i > Len(s) THEN <<s>>
       ELSE LET j == SkipIn(s, i, Separators)
            IN <<SubSeq(s, 1, i - 1)>> \o Split(SubSeq(s, j, Len(s)))

-----------------------------------------------------------------------------
(* parsePath *)

At_NaNPastEnd(coords, k) == IF k + 1 <= Len(coords) THEN coords[k + 1] ELSE NaN

\* coords[k] of a JavaScript array (k counted from 0): undefined past the end
At(coords, k) == IF k + 1 <= Len(coords) THEN coords[k + 1] ELSE Undefined

\* { command: command }: every field that is not set reads as undefined
EmptyObj(command) ==
    [command |-> command, x |-> Undefined, y |-> Undefined,
     x1 |-> Undefined, y1 |-> Undefined, x2 |-> Undefined, y2 |-> Undefined,
     rx |-> Undefined, ry |-> Undefined, xAxisRotation |-> Undefined,
     largeArcFlag |-> Undefined, sweepFlag |-> Undefined]

\* (match[2] || '').trim().split(/[\s,]+/).map(Number)
Coords(match2) ==
    LET pieces == Split(Trim(match2))
    IN [k \in 1..Len(pieces) |-> ToNumber(pieces[k])]

CommandObj_EndpointFirst(command, match2) ==
    LET coords == Coords(match2)
        obj == EmptyObj(command)
    IN IF command \in {"Z", "z"} THEN obj
       ELSE IF command \in {"C", "c"} THEN
           [obj EXCEPT !.x = At(coords, 0), !.y = At(coords, 1),
                       !.x1 = At(coords, 2), !.y1 = At(coords, 3),
                       !.x2 = At(coords, 4), !.y2 = At(coords, 5)]
       ELSE [obj EXCEPT !.x = At(coords, 0), !.y = At(coords, 1)]

\* The body of the while loop: the record built for one match
CommandObj(command, match2) ==
    LET coords == Coords(match2)
        obj == EmptyObj(command)
    IN IF command \in {"Z", "z"} THEN obj
       ELSE IF command \in {"M", "m", "L", "l"} THEN
           [obj EXCEPT !.x = At(coords, 0), !.y = At(coords, 1)]
       ELSE IF command \in {"C", "c"} THEN
           [obj EXCEPT !.x1 = At(coords, 0), !.y1 = At(coords, 1),
                       !.x2 = At(coords, 2), !.y2 = At(coords, 3),
                       !.x = At(coords, 4), !.y = At(coords, 5)]
       ELSE IF command \in {"A", "a"} THEN
           [obj EXCEPT !.rx = At(coords, 0), !.ry = At(coords, 1),
                       !.xAxisRotation = At(coords, 2),
                       !.largeArcFlag = At(coords, 3), !.sweepFlag = At(coords, 4),
                       !.x = At(coords, 5), !.y = At(coords, 6)]
       ELSE obj

\* regex.exec from lastIndex: the next match of
\* /([MmLlCcAaZz])\s*([^A-Za-z]+)?/g starts at the first command letter,
\* \s* takes the white space after it and group 2 the run of non-letters
RECURSIVE ParseFrom(_, _)
ParseFrom(str, lastIndex) ==
    LET p == SkipNotIn(str, lastIndex, CmdLetters)
    IN IF p > Len(str) THEN <<>>
       ELSE LET a == SkipIn(str, p + 1, Spaces)
                b == SkipNotIn(str, a, Letters)
            IN <<CommandObj(str[p], SubSeq(str, a, b - 1))>> \o ParseFrom(str, b)

parsePath(str) == ParseFrom(str, 1)

-----------------------------------------------------------------------------
(* generatePath *)

Sp == <<" ">>
Comma == <<",">>

\* What the forEach callback appends to dString for one command
CommandText(o) ==
    <<o.command>> \o Sp \o
    (IF o.command \in {"M", "m", "L", "l"} THEN
         ToStr(o.x) \o Comma \o ToStr(o.y) \o Sp
     ELSE IF o.command \in {"C", "c"} THEN
         ToStr(o.x1) \o Comma \o ToStr(o.y1) \o Sp \o
         ToStr(o.x2) \o Comma \o ToStr(o.y2) \o Sp \o
         ToStr(o.x) \o Comma \o ToStr(o.y) \o Sp
     ELSE IF o.command \in {"A", "a"} THEN
         ToStr(o.rx) \o Comma \o ToStr(o.ry) \o Sp \o
         ToStr(o.xAxisRotation) \o Sp \o
         ToStr(o.largeArcFlag) \o Comma \o ToStr(o.sweepFlag) \o Sp \o
         ToStr(o.x) \o Comma \o ToStr(o.y) \o Sp
     ELSE <<>>)

RECURSIVE CommandsText(_)
CommandsText(pathData) ==
    IF pathData = <<>> THEN <<>>
    ELSE CommandText(Head(pathData)) \o CommandsText(Tail(pathData))

\* originalPathD && originalPathD.trim().endsWith('Z')
AppendsZ(originalPathD) == originalPathD # <<>> /\ EndsWithZ(Trim(originalPathD))

generatePath_ZFromData(pathData, originalPathD) ==
    Trim(CommandsText(pathData)
         \o (IF originalPathD # <<>> /\ pathData # <<>>
                 /\ pathData[Len(pathData)].command = "Z"
              THEN <<"Z">> ELSE <<>>))

\* generatePath(pathData, pathId), originalPathD being the live 'd' attribute
\* of the element with id pathId
generatePath(pathData, originalPathD) ==
    Trim(CommandsText(pathData) \o (IF AppendsZ(originalPathD) THEN <<"Z">> ELSE <<>>))

-----------------------------------------------------------------------------
(* The preset manager: the presets object, getPreset, getPresetNames *)

Managers == {"mA", "mB"}

\* JavaScript values a preset may hold: two objects and the number 0
Data == {"objA", "objB", "0"}

\* The values ToBoolean maps to false
Falsy == {"undefined", "null", "0", "false", "NaN", ""}

ToBoolean(val) == val \notin Falsy

NameA == <<"a">>
Name1 == <<"1">>
NameToString == <<"t", "o", "S", "t", "r", "i", "n", "g">>
NameValueOf == <<"v", "a", "l", "u", "e", "O", "f">>

\* Names that every object inherits from Object.prototype (those spelled in
\* the model); "__proto__" is not among the modelled names
ObjectPrototypeNames == {NameToString, NameValueOf}

\* Names a caller saves presets under and reads them back from
Names == {NameA, Name1, NameToString}

HasOwn(obj, name) == \E i \in 1..Len(obj) : obj[i].name = name

OwnData(obj, name) == obj[CHOOSE i \in 1..Len(obj) : obj[i].name = name].data

\* presets[name]: the own property, else what Object.prototype has, else undefined
Lookup(obj, name) ==
    IF HasOwn(obj, name) THEN OwnData(obj, name)
    ELSE IF name \in ObjectPrototypeNames THEN "function"
    ELSE "undefined"

\* presets[name] = data: an own property keeps its place, a new one is added last
Put(obj, name, data) ==
    IF HasOwn(obj, name)
    THEN [i \in 1..Len(obj) |-> IF obj[i].name = name THEN [obj[i] EXCEPT !.data = data] ELSE obj[i]]
    ELSE Append(obj, [name |-> name, data |-> data])

\* An array index: the canonical decimal string of an integer
IsArrayIndex(name) ==
    AllDigits(name) /\ (Len(name) = 1 \/ Head(name) # "0")

RECURSIVE SelectSeq2(_, _)
SelectSeq2(names, keep) ==
    IF names = <<>> THEN <<>>
    ELSE (IF IsArrayIndex(Head(names)) = keep THEN <<Head(names)>> ELSE <<>>)
         \o SelectSeq2(Tail(names), keep)

RECURSIVE Ascending(_)
Ascending(indexNames) ==
    IF indexNames = {} THEN <<>>
    ELSE LET least == CHOOSE n \in indexNames :
                          \A o \in indexNames : DigitsValue(n) <= DigitsValue(o)
         IN <<least>> \o Ascending(indexNames \ {least})

\* Object.keys(obj): the array indices in ascending numeric order, then the
\* other names in the order of their creation
ObjectKeys(obj) ==
    LET names == [i \in 1..Len(obj) |-> obj[i].name]
        indices == SelectSeq2(names, TRUE)
    IN Ascending({indices[i] : i \in 1..Len(indices)}) \o SelectSeq2(names, FALSE)

\* presets[name] || null
getPreset(obj, name) ==
    IF ToBoolean(Lookup(obj, name)) THEN Lookup(obj, name) ELSE "null"

getPresetNames(obj) == ObjectKeys(obj)

\* The options updatePresetSelect leaves after the placeholder
updatePresetSelect(obj) == getPresetNames(obj)

NoOp ==
    [op |-> "none", name |-> <<>>, data |-> "undefined", applied |-> <<>>,
     animated |-> <<>>, fresh |-> FALSE, storeChanged |-> FALSE]

NoListeners == [setup |-> FALSE, save |-> FALSE, apply |-> FALSE, animate |-> FALSE,
                prefix |-> <<>>]

NoDom == [saveButton |-> FALSE, applyButton |-> FALSE, animateButton |-> FALSE,
          presetSelect |-> FALSE]

\* No manager is used
NoManagers ==
    /\ presets = [m \in Managers |-> <<>>]
    /\ presetCounter = [m \in Managers |-> 0]
    /\ dom = [m \in Managers |-> NoDom]
    /\ listeners = [m \in Managers |-> NoListeners]
    /\ selectOptions = [m \in Managers |-> <<>>]
    /\ selectValue = [m \in Managers |-> <<>>]
    /\ lastOp = [m \in Managers |-> NoOp]
    /\ savedNames = [m \in Managers |-> <<>>]
    /\ clickNames = [m \in Managers |-> <<>>]
    /\ saves = 0

\* The pipeline is not used
NoPipeline ==
    /\ pc = "off"
    /\ inputDesc = <<>>
    /\ parsed = <<>>
    /\ generated = <<>>
    /\ reparsed = <<>>

-----------------------------------------------------------------------------
(* The path elements of the page and the initial state of an editor *)

Editors == {"p1", "p2"}

\* A marker: a circle with its data-index and data-point-type attributes
\* ("null": the attribute is absent) and its centre
Marker(index, pointType, cx, cy) ==
    [index |-> index, pointType |-> pointType, cx |-> cx, cy |-> cy]

\* activeMarker = null
NoMarker == Marker(-1, "null", Undefined, Undefined)

\* The record of an event: what happened and on which editor's group
Event(kind, editor) == [kind |-> kind, editor |-> editor]

NoEvent == Event("none", "none")

NoCall ==
    [op |-> "none", before |-> <<>>, index |-> -1,
     pointType |-> "none", x |-> Undefined, y |-> Undefined,
     pathData |-> <<>>, originalPathD |-> <<>>, result |-> <<>>]

-----------------------------------------------------------------------------
(* Input strings of the parse / generate / parse pipeline.  A string is     *)
(* built from segments: a command letter and its argument tokens, written   *)
(* either spaced ("M 1 -2 ") or compact ("M1,-2").                          *)

MaxCmds == 3

Arity(letter) ==
    CASE letter \in {"M", "m", "L", "l"} -> 2
      [] letter \in {"C", "c"} -> 6
      [] letter \in {"A", "a"} -> 7
      [] OTHER -> 0

\* The fields of a command's record in the order of its arguments
Fields(letter) ==
    CASE letter \in {"M", "m", "L", "l"} -> <<"x", "y">>
      [] letter \in {"C", "c"} -> <<"x1", "y1", "x2", "y2", "x", "y">>
      [] letter \in {"A", "a"} ->
            <<"rx", "ry", "xAxisRotation", "largeArcFlag", "sweepFlag", "x", "y">>
      [] OTHER -> <<>>

\* Argument values: positive and negative, one and two digits, all distinct
\* within a command
ArgValue(base, j) == IF j % 2 = 1 THEN base + j ELSE -(base + j)

GoodToks(letter, base) == [j \in 1..Arity(letter) |-> IntToStr(ArgValue(base, j))]

\* A token of non-letters that is no number
BadToken == <<"1", "-", "2">>

Seg(letter, toks, style) == [letter |-> letter, toks |-> toks, style |-> style]

WellFormedSegs ==
    {Seg(l, GoodToks(l, 0), "spaced") : l \in CmdLetters}
    \cup {Seg(l, GoodToks(l, 9), "compact") : l \in {"m", "C", "Z"}}

TruncatedSegs ==
    {Seg("M", SubSeq(GoodToks("M", 0), 1, j), "spaced") : j \in {0, 1}}
    \cup {Seg("c", SubSeq(GoodToks("c", 0), 1, 5), "spaced"),
          Seg("A", SubSeq(GoodToks("A", 0), 1, 1), "spaced"),
          Seg("L", <<>>, "compact"),
          Seg("l", <<IntToStr(1), <<>>>>, "compact")}

BadTokenSegs ==
    {Seg("L", [GoodToks("L", 0) EXCEPT ![j] = BadToken], "compact") : j \in {1, 2}}
    \cup {Seg("C", [GoodToks("C", 0) EXCEPT ![6] = BadToken], "spaced")}

Segs == WellFormedSegs \cup TruncatedSegs \cup BadTokenSegs

RECURSIVE Join(_, _)
Join(toks, sep) ==
    IF toks = <<>> THEN <<>>
    ELSE IF Len(toks) = 1 THEN toks[1]
    ELSE toks[1] \o sep \o Join(Tail(toks), sep)

\* The tokens as pairs: "10,10 20,20"
RECURSIVE JoinPairs(_)
JoinPairs(toks) ==
    IF Len(toks) <= 2 THEN Join(toks, Comma)
    ELSE toks[1] \o Comma \o toks[2] \o Sp \o JoinPairs(SubSeq(toks, 3, Len(toks)))

RenderSeg(seg) ==
    IF seg.style = "spaced" THEN
        <<seg.letter>> \o Sp \o Join(seg.toks, Sp) \o (IF seg.toks = <<>> THEN <<>> ELSE Sp)
    ELSE IF seg.style = "pairs" THEN
        <<seg.letter>> \o Sp \o JoinPairs(seg.toks) \o Sp
    ELSE IF seg.style = "pairsEnd" THEN
        <<seg.letter>> \o Sp \o JoinPairs(seg.toks)
    ELSE <<seg.letter>> \o Join(seg.toks, Comma)

RECURSIVE Render(_)
Render(desc) == IF desc = <<>> THEN <<>> ELSE RenderSeg(Head(desc)) \o Render(Tail(desc))

InputDescs == UNION {[1..n -> Segs] : n \in 0..MaxCmds}

\* "M 10,10 L 20,20 Z"
ExampleClosedDesc ==
    <<Seg("M", <<IntToStr(10), IntToStr(10)>>, "pairs"),
      Seg("L", <<IntToStr(20), IntToStr(20)>>, "pairs"),
      Seg("Z", <<>>, "compact")>>

\* "C 1,1 2,2 3,3"
ExampleCubicDesc ==
    <<Seg("C", <<IntToStr(1), IntToStr(1), IntToStr(2), IntToStr(2), IntToStr(3), IntToStr(3)>>,
          "pairsEnd")>>

ExampleDescs == {ExampleClosedDesc, ExampleCubicDesc}

WellFormed(desc) == \A i \in 1..Len(desc) : desc[i] \in WellFormedSegs

-----------------------------------------------------------------------------
(* The pipeline parsePath -> generatePath -> parsePath on element p1 *)

InitParse ==
    /\ inputDesc \in InputDescs \cup ExampleDescs
    /\ d = [e \in Editors |-> IF e = "p1" THEN Render(inputDesc) ELSE <<>>]
    /\ markers = [e \in Editors |-> <<>>]
    /\ isDragging = [e \in Editors |-> FALSE]
    /\ activeMarker = [e \in Editors |-> NoMarker]
    /\ lastCall = [e \in Editors |-> NoCall]
    /\ edits = 0
    /\ event = NoEvent
    /\ hit = [e \in Editors |-> NoMarker]
    /\ pc = "input"
    /\ parsed = <<>>
    /\ generated = <<>>
    /\ reparsed = <<>>
    /\ NoManagers

Parse ==
    /\ pc = "input"
    /\ parsed' = parsePath(d["p1"])
    /\ pc' = "parsed"
    /\ UNCHANGED presetVars
    /\ UNCHANGED <<pathVars, inputDesc, generated, reparsed>>

Generate ==
    /\ pc = "parsed"
    /\ generated' = generatePath(parsed, d["p1"])
    /\ pc' = "generated"
    /\ UNCHANGED presetVars
    /\ UNCHANGED <<pathVars, inputDesc, parsed, reparsed>>

Reparse ==
    /\ pc = "generated"
    /\ reparsed' = parsePath(generated)
    /\ pc' = "done"
    /\ UNCHANGED presetVars
    /\ UNCHANGED <<pathVars, inputDesc, parsed, generated>>

NextParse == Parse \/ Generate \/ Reparse

SpecParse == InitParse /\ [][NextParse]_vars

-----------------------------------------------------------------------------
(* Claims about parsePath and generatePath as functions *)

SameCommands(a, b) ==
    /\ Len(a) = Len(b)
    /\ \A i \in 1..Len(a) :
          /\ a[i].command = b[i].command
          /\ \A f \in {"x", "y", "x1", "y1", "x2", "y2", "rx", "ry",
                       "xAxisRotation", "largeArcFlag", "sweepFlag"} : a[i][f] = b[i][f]

\* C1: for every path string built only from supported commands with full
\* argument lists, a trailing 'Z' included, parsing the string generated
\* from the parsed string (the live attribute being that string) gives the
\* same number of commands, the same letters and equal coordinate fields.
C1_RoundTrip ==
    (pc = "done" /\ WellFormed(inputDesc)) => SameCommands(reparsed, parsed)

\* The round trip of a well-formed string that does not end with 'Z' keeps
\* the commands (what is left of C1 when the trailing 'Z' is excluded).
C1_RoundTripOpen ==
    (pc = "done" /\ WellFormed(inputDesc) /\ ~AppendsZ(d["p1"]))
        => SameCommands(reparsed, parsed)

IsNumeral(tok) ==
    \/ AllDigits(tok)
    \/ tok # <<>> /\ Head(tok) = "-" /\ AllDigits(Tail(tok))

\* The argument of field j of segment seg is missing or is no number
MissingOrMalformed(seg, j) == j > Len(seg.toks) \/ ~IsNumeral(seg.toks[j])

\* C10: for a supported non-Z command whose argument list is truncated
\* (none at all included) or holds a non-numeric token, parsePath still
\* returns a record for the command, and every field whose argument is
\* missing or malformed is NaN.
C10_MissingOrMalformedIsNaN ==
    pc # "input" =>
        /\ Len(parsed) = Len(inputDesc)
        /\ \A i \in 1..Len(inputDesc) :
              /\ parsed[i].command = inputDesc[i].letter
              /\ \A j \in 1..Arity(inputDesc[i].letter) :
                    MissingOrMalformed(inputDesc[i], j)
                        => parsed[i][Fields(inputDesc[i].letter)[j]] = NaN

\* C10 as the code has it: a record is returned for every command; a field
\* whose token is present and is no number is NaN, a field past the end of
\* the argument list is undefined, and an empty argument (no argument at
\* all, which sets the first field, or the gap after a trailing comma) is 0,
\* the number of the empty string.
C10_MissingIsUndefined ==
    pc # "input" =>
        /\ Len(parsed) = Len(inputDesc)
        /\ \A i \in 1..Len(inputDesc) :
              LET seg == inputDesc[i]
              IN /\ parsed[i].command = seg.letter
                 /\ \A j \in 1..Arity(seg.letter) :
                       LET field == parsed[i][Fields(seg.letter)[j]]
                       IN IF j <= Len(seg.toks)
                          THEN IF seg.toks[j] = <<>> THEN field = Num(0)
                               ELSE IF IsNumeral(seg.toks[j])
                               THEN field.t = "number"
                               ELSE field = NaN
                          ELSE IF seg.toks = <<>> /\ j = 1
                               THEN field = Num(0)
                               ELSE field = Undefined

\* A truncated list, an empty list and a malformed token have been parsed
C10_Witness ==
    /\ pc = "parsed"
    /\ Len(inputDesc) = 2
    /\ inputDesc[1].toks = <<>> /\ Arity(inputDesc[1].letter) > 0
    /\ \E j \in 1..Len(inputDesc[2].toks) : ~IsNumeral(inputDesc[2].toks[j])
    /\ parsed[1].x = Num(0)
    /\ parsed[1].y = Undefined

-----------------------------------------------------------------------------
(* The editor: drawMarkers, updatePath, applyPathData and the drag handlers *)

MaxEdits == 2

MarkersOf_EndpointOnly(o, index) ==
    IF o.x # Undefined /\ o.y # Undefined
    THEN <<Marker(index, "null", o.x, o.y)>> ELSE <<>>

\* The circles drawMarkers appends for the command at position index
MarkersOf(o, index) ==
    (IF o.x # Undefined /\ o.y # Undefined
        THEN <<Marker(index, "null", o.x, o.y)>> ELSE <<>>)
    \o (IF o.x1 # Undefined /\ o.y1 # Undefined
        THEN <<Marker(index, "C1", o.x1, o.y1)>> ELSE <<>>)
    \o (IF o.x2 # Undefined /\ o.y2 # Undefined
        THEN <<Marker(index, "C2", o.x2, o.y2)>> ELSE <<>>)

RECURSIVE DrawFrom(_, _)
DrawFrom(parsedPathData, index) ==
    IF index >= Len(parsedPathData) THEN <<>>
    ELSE MarkersOf(parsedPathData[index + 1], index) \o DrawFrom(parsedPathData, index + 1)

\* drawMarkers: innerHTML = '' and then the circles of every command, index
\* counting the commands from 0
drawMarkers(parsedPathData) == DrawFrom(parsedPathData, 0)

\* The assignments updatePath makes to commandObj
SetPoint(o, pointType, x, y) ==
    IF pointType = "C1" THEN [o EXCEPT !.x1 = x, !.y1 = y]
    ELSE IF pointType = "C2" THEN [o EXCEPT !.x2 = x, !.y2 = y]
    ELSE [o EXCEPT !.x = x, !.y = y]

\* parsedPathData after updatePath's assignments (index counted from 0)
UpdatedData(str, index, pointType, x, y) ==
    LET parsedPathData == parsePath(str)
    IN [parsedPathData EXCEPT ![index + 1] = SetPoint(@, pointType, x, y)]

\* parsedPathData[updateData.index] is a command
ValidIndex(str, index) == index >= 0 /\ index < Len(parsePath(str))

\* The record of a call of updatePath on an element whose attribute is str
UpdateCall(str, index, pointType, x, y) ==
    LET data == UpdatedData(str, index, pointType, x, y)
    IN [op |-> "updatePath", before |-> str, index |-> index,
        pointType |-> pointType, x |-> x, y |-> y,
        pathData |-> data, originalPathD |-> str,
        result |-> generatePath(data, str)]

\* updatePath with an index past the commands: the assignment to
\* commandObj.x throws and nothing is written
ThrownCall(str, index, pointType, x, y) ==
    [NoCall EXCEPT !.op = "updatePathThrew", !.before = str, !.index = index,
                   !.pointType = pointType, !.x = x, !.y = y]

\* The paths the editors are created on
EditorDescs ==
    {<<Seg("M", GoodToks("M", 0), "spaced"), Seg("L", GoodToks("L", 0), "spaced")>>,
     <<Seg("M", GoodToks("M", 0), "spaced"), Seg("L", GoodToks("L", 0), "spaced"),
       Seg("Z", <<>>, "spaced")>>,
     <<Seg("M", GoodToks("M", 0), "spaced"), Seg("C", GoodToks("C", 9), "compact")>>,
     <<Seg("m", GoodToks("m", 9), "compact"), Seg("A", GoodToks("A", 0), "spaced"),
       Seg("z", <<>>, "spaced")>>,
     <<Seg("M", GoodToks("M", 0), "spaced"), Seg("c", GoodToks("c", 0), "spaced"),
       Seg("Z", <<>>, "compact")>>}

\* The path of the second element
OtherDesc == <<Seg("M", GoodToks("M", 0), "spaced"), Seg("l", GoodToks("l", 0), "spaced")>>

\* Pointer positions in the coordinates of the svg element
DragPoints == {<<Num(5), Num(-6)>>, <<Num(12), Num(0)>>}

PointTypes == {"endpoint", "C1", "C2"}

\* Path data a caller hands to applyPathData
NewPathData ==
    {parsePath(Render(desc)) :
        desc \in {<<>>,
                  <<Seg("M", GoodToks("M", 9), "spaced"), Seg("L", GoodToks("L", 9), "spaced")>>,
                  <<Seg("L", GoodToks("L", 0), "spaced"), Seg("Z", <<>>, "spaced")>>,
                  <<Seg("C", GoodToks("C", 0), "spaced")>>}}

\* After createPathEditors: init has drawn the markers of each path
InitPath ==
    /\ \E desc \in EditorDescs :
          d = [e \in Editors |-> IF e = "p1" THEN Render(desc) ELSE Render(OtherDesc)]
    /\ markers = [e \in Editors |-> drawMarkers(parsePath(d[e]))]
    /\ isDragging = [e \in Editors |-> FALSE]
    /\ activeMarker = [e \in Editors |-> NoMarker]
    /\ lastCall = [e \in Editors |-> NoCall]
    /\ edits = 0
    /\ event = NoEvent
    /\ hit = [e \in Editors |-> NoMarker]
    /\ NoPipeline
    /\ NoManagers

PointerDown_SharedState(e, k) ==
    /\ k \in 1..Len(markers[e])
    /\ isDragging' = [o \in Editors |-> TRUE]
    /\ activeMarker' = [o \in Editors |-> markers[e][k]]
    /\ event' = Event("downHit", e)
    /\ hit' = [hit EXCEPT ![e] = markers[e][k]]
    /\ UNCHANGED <<d, markers, lastCall, edits, pipeVars, presetVars>>

\* handleStart of editor e, the target being the k-th circle of its group
PointerDown(e, k) ==
    /\ k \in 1..Len(markers[e])
    /\ isDragging' = [isDragging EXCEPT ![e] = TRUE]
    /\ activeMarker' = [activeMarker EXCEPT ![e] = markers[e][k]]
    /\ event' = Event("downHit", e)
    /\ hit' = [hit EXCEPT ![e] = markers[e][k]]
    /\ UNCHANGED <<d, markers, lastCall, edits, pipeVars, presetVars>>

\* A pointer-down outside every markers group: no handleStart runs
PointerDownElsewhere ==
    /\ event' = Event("downMiss", "none")
    /\ UNCHANGED <<d, markers, isDragging, activeMarker, lastCall, edits, hit,
                   pipeVars, presetVars>>

ActiveIndex_LastOfGroup(e) ==
    IF markers[e] = <<>> THEN -1 ELSE markers[e][Len(markers[e])].index

\* parseInt(activeMarker.getAttribute('data-index'))
ActiveIndex(e) == activeMarker[e].index

\* activeMarker.getAttribute('data-point-type') || 'endpoint'
ActivePointType(e) ==
    IF activeMarker[e].pointType = "null" THEN "endpoint" ELSE activeMarker[e].pointType

\* if (!isDragging || !activeMarker) return;
Armed(e) == isDragging[e] /\ activeMarker[e] # NoMarker

\* A mousemove or touchmove on the document: handleMove of every editor
PointerMove(pt) ==
    LET Call(e) == IF ValidIndex(d[e], ActiveIndex(e))
                   THEN UpdateCall(d[e], ActiveIndex(e), ActivePointType(e), pt[1], pt[2])
                   ELSE ThrownCall(d[e], ActiveIndex(e), ActivePointType(e), pt[1], pt[2])
        Writes(e) == Armed(e) /\ ValidIndex(d[e], ActiveIndex(e))
    IN /\ (\E e \in Editors : Armed(e)) => edits < MaxEdits
       /\ d' = [e \in Editors |-> IF Writes(e) THEN Call(e).result ELSE d[e]]
       /\ markers' = [e \in Editors |->
                         IF Writes(e) THEN drawMarkers(Call(e).pathData) ELSE markers[e]]
       /\ lastCall' = [e \in Editors |-> IF Armed(e) THEN Call(e) ELSE lastCall[e]]
       /\ edits' = IF \E e \in Editors : Armed(e) THEN edits + 1 ELSE edits
       /\ event' = Event("move", "none")
       /\ UNCHANGED <<isDragging, activeMarker, hit, pipeVars, presetVars>>

PointerUp_StaysArmed ==
    /\ event' = Event("up", "none")
    /\ UNCHANGED <<d, markers, isDragging, activeMarker, lastCall, edits, hit,
                   pipeVars, presetVars>>

\* A mouseup or touchend on the document: handleEnd of every editor
PointerUp ==
    /\ isDragging' = [e \in Editors |-> FALSE]
    /\ activeMarker' = [e \in Editors |-> NoMarker]
    /\ event' = Event("up", "none")
    /\ hit' = [e \in Editors |-> NoMarker]
    /\ UNCHANGED <<d, markers, lastCall, edits, pipeVars, presetVars>>

\* editor.updatePath({x, y, index, pointType}) called with a valid index
UpdatePath(e, index, pointType, pt) ==
    /\ edits < MaxEdits
    /\ ValidIndex(d[e], index)
    /\ LET call == UpdateCall(d[e], index, pointType, pt[1], pt[2])
       IN /\ d' = [d EXCEPT ![e] = call.result]
          /\ markers' = [markers EXCEPT ![e] = drawMarkers(call.pathData)]
          /\ lastCall' = [lastCall EXCEPT ![e] = call]
    /\ edits' = edits + 1
    /\ event' = Event("updatePath", e)
    /\ UNCHANGED <<isDragging, activeMarker, hit, pipeVars, presetVars>>

\* editor.applyPathData(newPathData)
ApplyPathData(e, newPathData) ==
    /\ edits < MaxEdits
    /\ LET result == generatePath(newPathData, d[e])
       IN /\ d' = [d EXCEPT ![e] = result]
          /\ lastCall' = [lastCall EXCEPT ![e] =
                 [NoCall EXCEPT !.op = "applyPathData", !.before = d[e],
                                !.pathData = newPathData, !.originalPathD = d[e],
                                !.result = result]]
    /\ markers' = [markers EXCEPT ![e] = drawMarkers(newPathData)]
    /\ edits' = edits + 1
    /\ event' = Event("applyPathData", e)
    /\ UNCHANGED <<isDragging, activeMarker, hit, pipeVars, presetVars>>

\* One editor is operated; the second element is on the page and hears the
\* document's events
NextPath ==
    \/ \E k \in 1..Len(markers["p1"]) : PointerDown("p1", k)
    \/ PointerDownElsewhere
    \/ \E pt \in DragPoints : PointerMove(pt)
    \/ PointerUp
    \/ \E index \in 0..(Len(parsePath(d["p1"])) - 1), pointType \in PointTypes,
          pt \in DragPoints :
          UpdatePath("p1", index, pointType, pt)
    \/ \E newPathData \in NewPathData : ApplyPathData("p1", newPathData)

SpecPath == InitPath /\ [][NextPath]_vars

\* Paths with a malformed and with a truncated argument list
MalformedDescs ==
    {<<Seg("M", [GoodToks("M", 0) EXCEPT ![1] = BadToken], "spaced"),
       Seg("L", GoodToks("L", 0), "spaced")>>,
     <<Seg("M", GoodToks("M", 0), "spaced"),
       Seg("c", SubSeq(GoodToks("c", 0), 1, 4), "spaced")>>}

DragDescs == EditorDescs \cup MalformedDescs

\* After createPathEditors on a page whose first path is any of DragDescs;
\* inputDesc remembers how that path was written
InitDrag ==
    /\ inputDesc \in DragDescs
    /\ d = [e \in Editors |-> IF e = "p1" THEN Render(inputDesc) ELSE Render(OtherDesc)]
    /\ markers = [e \in Editors |-> drawMarkers(parsePath(d[e]))]
    /\ isDragging = [e \in Editors |-> FALSE]
    /\ activeMarker = [e \in Editors |-> NoMarker]
    /\ lastCall = [e \in Editors |-> NoCall]
    /\ edits = 0
    /\ event = NoEvent
    /\ hit = [e \in Editors |-> NoMarker]
    /\ pc = "off"
    /\ parsed = <<>>
    /\ generated = <<>>
    /\ reparsed = <<>>
    /\ NoManagers

\* The editors are operated by pointer events only
NextDrag ==
    \/ \E k \in 1..Len(markers["p1"]) : PointerDown("p1", k)
    \/ PointerDownElsewhere
    \/ \E pt \in DragPoints : PointerMove(pt)
    \/ PointerUp

SpecDrag == InitDrag /\ [][NextDrag]_vars

-----------------------------------------------------------------------------
(* Claims about the editor's operations *)

AllFields ==
    {"x", "y", "x1", "y1", "x2", "y2", "rx", "ry",
     "xAxisRotation", "largeArcFlag", "sweepFlag"}

\* The coordinate pair a point type selects
SelectedFields(pointType) ==
    IF pointType = "C1" THEN {"x1", "y1"}
    ELSE IF pointType = "C2" THEN {"x2", "y2"}
    ELSE {"x", "y"}

\* Between the parses of the attribute before and after a call of updatePath
\* on command i, only the selected pair of command i differs
OnlyPointChanged(call, after) ==
    LET before == parsePath(call.before)
        now == parsePath(after)
        i == call.index + 1
    IN /\ Len(now) = Len(before)
       /\ \A j \in 1..Len(before) : j # i => now[j] = before[j]
       /\ now[i].command = before[i].command
       /\ \A f \in AllFields \ SelectedFields(call.pointType) : now[i][f] = before[i][f]

\* C4: updatePath with a valid index changes only the coordinate pair the
\* point type selects of command i: the parses of the live attribute before
\* and after have the same number of commands, every other command is
\* identical and command i keeps its letter and its other fields.
C4_UpdateChangesOnlyPoint ==
    \A e \in Editors :
        lastCall[e].op = "updatePath" => OnlyPointChanged(lastCall[e], d[e])

\* What is left of C4 on a path whose attribute does not end with 'Z'
C4_UpdateChangesOnlyPointOpen ==
    \A e \in Editors :
        (lastCall[e].op = "updatePath" /\ ~EndsWithZ(Trim(lastCall[e].before)))
            => OnlyPointChanged(lastCall[e], d[e])

CommandLetters(pathData) == [i \in 1..Len(pathData) |-> pathData[i].command]

\* C5: generatePath returns the commands of pathData serialized in order,
\* followed by one appended 'Z' if and only if the live attribute, trimmed,
\* ends with 'Z', whatever pathData holds.
C5_TrailingZFromLiveAttribute ==
    \A e \in Editors :
        lastCall[e].op \in {"updatePath", "applyPathData"} =>
            LET call == lastCall[e]
                closed == EndsWithZ(Trim(call.originalPathD))
                body == CommandsText(call.pathData)
            IN /\ call.result = IF closed THEN body \o <<"Z">> ELSE TrimRight(body)
               /\ CommandLetters(parsePath(call.result))
                     = CommandLetters(call.pathData) \o (IF closed THEN <<"Z">> ELSE <<>>)
               /\ d[e] = call.result

\* generatePath has appended a 'Z' to data that holds no 'Z' command, and has
\* appended none to data that ends with one
C5_Witness ==
    /\ lastCall["p1"].op = "applyPathData"
    /\ lastCall["p1"].pathData # <<>>
    /\ \/ /\ EndsWithZ(Trim(lastCall["p1"].originalPathD))
          /\ "Z" \notin {lastCall["p1"].pathData[i].command :
                            i \in 1..Len(lastCall["p1"].pathData)}
          /\ EndsWithZ(d["p1"])
       \/ /\ ~EndsWithZ(Trim(lastCall["p1"].originalPathD))
          /\ lastCall["p1"].pathData[Len(lastCall["p1"].pathData)].command = "Z"
          /\ parsePath(d["p1"]) = lastCall["p1"].pathData

-----------------------------------------------------------------------------
(* The preset manager: savePreset, setup and the click handlers *)

MaxSaves == 1
MaxClicks == 2

\* Values of config.presetNamePrefix
Prefixes == {<<"p">>, <<>>}

\* Options the select element of the page holds before a manager refreshes it
InitOptions == {<<>>, <<NameA, NameToString>>}

Op(op, name, data) == [NoOp EXCEPT !.op = op, !.name = name, !.data = data]

\* History: names in the order of their first save
Remember(names, name) ==
    IF \E i \in 1..Len(names) : names[i] = name THEN names ELSE Append(names, name)

NextCounter_Stuck(counter) == counter

\* presetCounter++
NextCounter(counter) == counter + 1

\* presetNamePrefix + presetCounter
PresetName(prefix, counter) == prefix \o IntToStr(counter)

Seeded_Never(saveButton) == FALSE

\* if (saveButton) { saveButton.click(); } at the end of setup
Seeded(saveButton) == saveButton

AllDom == [saveButton |-> TRUE, applyButton |-> TRUE, animateButton |-> TRUE,
           presetSelect |-> TRUE]

\* The pages a manager is set up on: every element present, or one missing
Pages ==
    {AllDom, [AllDom EXCEPT !.saveButton = FALSE], [AllDom EXCEPT !.applyButton = FALSE],
     [AllDom EXCEPT !.animateButton = FALSE], [AllDom EXCEPT !.presetSelect = FALSE]}

\* A freshly made manager on one of the pages
InitPreset ==
    /\ presets = [m \in Managers |-> <<>>]
    /\ presetCounter = [m \in Managers |-> 0]
    /\ \E page \in Pages : dom = [m \in Managers |-> IF m = "mA" THEN page ELSE NoDom]
    /\ listeners = [m \in Managers |-> NoListeners]
    /\ \E options \in InitOptions :
          selectOptions = [m \in Managers |->
                              IF dom[m].presetSelect THEN options ELSE <<>>]
    /\ selectValue = [m \in Managers |-> <<>>]
    /\ lastOp = [m \in Managers |-> NoOp]
    /\ savedNames = [m \in Managers |-> <<>>]
    /\ clickNames = [m \in Managers |-> <<>>]
    /\ saves = 0
    /\ NoPipeline
    /\ d = [e \in Editors |-> <<>>]
    /\ markers = [e \in Editors |-> <<>>]
    /\ isDragging = [e \in Editors |-> FALSE]
    /\ activeMarker = [e \in Editors |-> NoMarker]
    /\ lastCall = [e \in Editors |-> NoCall]
    /\ edits = 0
    /\ event = NoEvent
    /\ hit = [e \in Editors |-> NoMarker]

\* manager.savePreset(name, data)
SavePreset(m, name, data) ==
    /\ saves < MaxSaves
    /\ saves' = saves + 1
    /\ presets' = [presets EXCEPT ![m] = Put(@, name, data)]
    /\ savedNames' = [savedNames EXCEPT ![m] = Remember(@, name)]
    /\ lastOp' = [lastOp EXCEPT ![m] =
                     [Op("savePreset", name, data) EXCEPT !.storeChanged = TRUE]]
    /\ UNCHANGED <<presetCounter, dom, listeners, selectOptions, selectValue, clickNames>>
    /\ UNCHANGED <<pathVars, pipeVars>>

\* manager.getPreset(name)
GetPreset(m, name) ==
    /\ lastOp' = [lastOp EXCEPT ![m] = Op("getPreset", name, getPreset(presets[m], name))]
    /\ UNCHANGED <<presets, presetCounter, dom, listeners, selectOptions, selectValue,
                   savedNames, clickNames, saves>>
    /\ UNCHANGED <<pathVars, pipeVars>>

SaveHandler_SharedCounter(m, prefix, data) ==
    LET counter == NextCounter(presetCounter[m])
        presetName == PresetName(prefix, counter)
        stored == Put(presets[m], presetName, data)
    IN /\ presetCounter' = [o \in Managers |-> counter]
       /\ presets' = [presets EXCEPT ![m] = stored]
       /\ selectOptions' = [selectOptions EXCEPT ![m] =
                               IF dom[m].presetSelect THEN updatePresetSelect(stored) ELSE @]
       /\ selectValue' = [selectValue EXCEPT ![m] =
                             IF dom[m].presetSelect THEN <<>> ELSE @]
       /\ savedNames' = [savedNames EXCEPT ![m] = Remember(@, presetName)]
       /\ clickNames' = [clickNames EXCEPT ![m] = Append(@, presetName)]

\* The click handler of the save button, getInitialData() returning data
SaveHandler(m, prefix, data) ==
    LET counter == NextCounter(presetCounter[m])
        presetName == PresetName(prefix, counter)
        stored == Put(presets[m], presetName, data)
    IN /\ presetCounter' = [presetCounter EXCEPT ![m] = counter]
       /\ presets' = [presets EXCEPT ![m] = stored]
       /\ selectOptions' = [selectOptions EXCEPT ![m] =
                               IF dom[m].presetSelect THEN updatePresetSelect(stored) ELSE @]
       /\ selectValue' = [selectValue EXCEPT ![m] =
                             IF dom[m].presetSelect THEN <<>> ELSE @]
       /\ savedNames' = [savedNames EXCEPT ![m] = Remember(@, presetName)]
       /\ clickNames' = [clickNames EXCEPT ![m] = Append(@, presetName)]

\* manager.setup(config), config.presetNamePrefix being prefix and
\* getInitialData() returning data
Setup(m, prefix, data) ==
    /\ ~listeners[m].setup
    /\ listeners' = [listeners EXCEPT ![m] =
                        [setup |-> TRUE, save |-> dom[m].saveButton,
                         apply |-> dom[m].applyButton, animate |-> dom[m].animateButton,
                         prefix |-> prefix]]
    /\ IF Seeded(dom[m].saveButton)
       THEN SaveHandler(m, prefix, data)
       ELSE UNCHANGED <<presetCounter, presets, selectOptions, selectValue,
                        savedNames, clickNames>>
    /\ lastOp' = [lastOp EXCEPT ![m] =
                     [Op("setup", PresetName(prefix, 1), data) EXCEPT
                         !.fresh = (presets[m] = <<>> /\ presetCounter[m] = 0),
                         !.storeChanged = (presets'[m] # presets[m]
                                           \/ presetCounter'[m] # presetCounter[m])]]
    /\ UNCHANGED <<dom, saves>>
    /\ UNCHANGED <<pathVars, pipeVars>>

\* A click on the save button, getInitialData() returning data
SaveClick(m, data) ==
    /\ listeners[m].save
    /\ presetCounter[m] < MaxClicks
    /\ SaveHandler(m, listeners[m].prefix, data)
    /\ lastOp' = [lastOp EXCEPT ![m] =
                     [Op("saveClick", PresetName(listeners[m].prefix, presetCounter'[m]), data)
                         EXCEPT !.storeChanged = TRUE]]
    /\ UNCHANGED <<dom, listeners, saves>>
    /\ UNCHANGED <<pathVars, pipeVars>>

\* The user picks an option of the preset select
SelectOption(m, name) ==
    /\ dom[m].presetSelect
    /\ name = <<>> \/ \E i \in 1..Len(selectOptions[m]) : selectOptions[m][i] = name
    /\ selectValue' = [selectValue EXCEPT ![m] = name]
    /\ lastOp' = [lastOp EXCEPT ![m] = Op("select", name, "undefined")]
    /\ UNCHANGED <<presets, presetCounter, dom, listeners, selectOptions,
                   savedNames, clickNames, saves>>
    /\ UNCHANGED <<pathVars, pipeVars>>

\* selectElement ? selectElement.value : null, as a truth value
HasSelection(m) == dom[m].presetSelect /\ selectValue[m] # <<>>

\* The data a click handler hands on: the selection's preset if both are truthy
Handed(m) ==
    IF HasSelection(m) /\ ToBoolean(getPreset(presets[m], selectValue[m]))
    THEN <<getPreset(presets[m], selectValue[m])>>
    ELSE <<>>

\* A click on the apply button
ApplyClick(m) ==
    /\ listeners[m].apply
    /\ lastOp' = [lastOp EXCEPT ![m] =
                     [Op("applyClick", IF dom[m].presetSelect THEN selectValue[m] ELSE <<>>,
                         "undefined")
                         EXCEPT !.applied = Handed(m)]]
    /\ UNCHANGED <<presets, presetCounter, dom, listeners, selectOptions, selectValue,
                   savedNames, clickNames, saves>>
    /\ UNCHANGED <<pathVars, pipeVars>>

\* A click on the animate button
AnimateClick(m) ==
    /\ listeners[m].animate
    /\ lastOp' = [lastOp EXCEPT ![m] =
                     [Op("animateClick", IF dom[m].presetSelect THEN selectValue[m] ELSE <<>>,
                         "undefined")
                         EXCEPT !.animated = Handed(m)]]
    /\ UNCHANGED <<presets, presetCounter, dom, listeners, selectOptions, selectValue,
                   savedNames, clickNames, saves>>
    /\ UNCHANGED <<pathVars, pipeVars>>

\* One manager is used
NextPreset ==
    \/ \E name \in Names, data \in Data : SavePreset("mA", name, data)
    \/ \E name \in Names : GetPreset("mA", name)
    \/ \E prefix \in Prefixes, data \in Data : Setup("mA", prefix, data)
    \/ \E data \in Data : SaveClick("mA", data)
    \/ \E name \in Names \cup {<<>>} : SelectOption("mA", name)
    \/ ApplyClick("mA")
    \/ AnimateClick("mA")

SpecPreset == InitPreset /\ [][NextPreset]_vars

\* Two managers made by two PresetManagerFactory() calls, each on a page
\* region of its own with all four elements
InitManagers ==
    /\ presets = [m \in Managers |-> <<>>]
    /\ presetCounter = [m \in Managers |-> 0]
    /\ dom = [m \in Managers |-> AllDom]
    /\ listeners = [m \in Managers |-> NoListeners]
    /\ selectOptions = [m \in Managers |-> <<>>]
    /\ selectValue = [m \in Managers |-> <<>>]
    /\ lastOp = [m \in Managers |-> NoOp]
    /\ savedNames = [m \in Managers |-> <<>>]
    /\ clickNames = [m \in Managers |-> <<>>]
    /\ saves = 0
    /\ NoPipeline
    /\ d = [e \in Editors |-> <<>>]
    /\ markers = [e \in Editors |-> <<>>]
    /\ isDragging = [e \in Editors |-> FALSE]
    /\ activeMarker = [e \in Editors |-> NoMarker]
    /\ lastCall = [e \in Editors |-> NoCall]
    /\ edits = 0
    /\ event = NoEvent
    /\ hit = [e \in Editors |-> NoMarker]

\* The data getInitialData() of the two pages returns
PageData == {"objA", "0"}

\* Both managers are used, in any interleaving
NextManagers ==
    \E m \in Managers :
        \/ \E name \in {NameA, Name1}, data \in PageData : SavePreset(m, name, data)
        \/ \E prefix \in Prefixes, data \in PageData : Setup(m, prefix, data)
        \/ \E data \in PageData : SaveClick(m, data)

SpecManagers == InitManagers /\ [][NextManagers]_vars

-----------------------------------------------------------------------------
(* Claims about the preset manager *)

\* C2: savePreset(name, data) followed by getPreset(name), with no save under
\* that name in between, returns exactly the stored value, for every value.
C2_GetReturnsStored ==
    \A m \in Managers :
        (lastOp[m].op = "getPreset" /\ HasOwn(presets[m], lastOp[m].name))
            => lastOp[m].data = OwnData(presets[m], lastOp[m].name)

\* C3: getPresetNames() returns exactly the distinct names saved so far, each
\* once, in the order of their first save, for every name string.
C3_NamesInFirstSaveOrder ==
    \A m \in Managers : getPresetNames(presets[m]) = savedNames[m]

\* What is left of C3 without the order: the names saved so far, each once
C3_NamesAsSet ==
    \A m \in Managers :
        LET names == getPresetNames(presets[m])
        IN /\ {names[i] : i \in 1..Len(names)} = {savedNames[m][i] : i \in 1..Len(savedNames[m])}
           /\ Len(names) = Len(savedNames[m])

\* C6: when the select's value names a stored preset, an apply click calls
\* applyData exactly once with the stored data and never animateData, and an
\* animate click calls animateData exactly once with it and never applyData.
C6_ClickHandsStoredData ==
    \A m \in Managers :
        (lastOp[m].op \in {"applyClick", "animateClick"}
            /\ dom[m].presetSelect /\ HasOwn(presets[m], lastOp[m].name))
        => LET stored == <<OwnData(presets[m], lastOp[m].name)>>
           IN IF lastOp[m].op = "applyClick"
              THEN lastOp[m].applied = stored /\ lastOp[m].animated = <<>>
              ELSE lastOp[m].animated = stored /\ lastOp[m].applied = <<>>

\* C7: on a manager set up once, the k-th save click (the seed counted)
\* stores the data getInitialData() returned under prefix + k: after k clicks
\* the counter is k, the names prefix+1 .. prefix+k all exist, and no click
\* stored under the name of an earlier click.
C7_ClickNamesCountUp ==
    \A m \in Managers :
        listeners[m].setup =>
            /\ Len(clickNames[m]) = presetCounter[m]
            /\ \A k \in 1..presetCounter[m] :
                  /\ clickNames[m][k] = listeners[m].prefix \o DigitsOf(k)
                  /\ HasOwn(presets[m], clickNames[m][k])
                  /\ \A j \in 1..(k - 1) : clickNames[m][j] # clickNames[m][k]
            /\ lastOp[m].op = "saveClick" =>
                  /\ lastOp[m].name = clickNames[m][presetCounter[m]]
                  /\ OwnData(presets[m], lastOp[m].name) = lastOp[m].data

\* A second save click has stored beside the seed
C7_Witness ==
    /\ lastOp["mA"].op = "saveClick"
    /\ presetCounter["mA"] = 2
    /\ Len(clickNames["mA"]) = 2
    /\ HasOwn(presets["mA"], clickNames["mA"][1])
    /\ HasOwn(presets["mA"], clickNames["mA"][2])

\* C8: setup with an existing save button on a fresh manager performs
\* exactly one save: right after it getPresetNames() is [prefix + '1'], its
\* data is what getInitialData() returned, the select (when the page has
\* one) lists that name, and neither applyData nor animateData was called.
C8_SetupSeedsOnePreset ==
    \A m \in Managers :
        (lastOp[m].op = "setup" /\ lastOp[m].fresh /\ dom[m].saveButton) =>
            LET seed == listeners[m].prefix \o <<"1">>
            IN /\ getPresetNames(presets[m]) = <<seed>>
               /\ presets[m] = <<[name |-> seed, data |-> lastOp[m].data]>>
               /\ presetCounter[m] = 1
               /\ dom[m].presetSelect => selectOptions[m] = <<seed>>
               /\ lastOp[m].applied = <<>>
               /\ lastOp[m].animated = <<>>

\* setup has seeded a fresh manager on a page with a save button and a select
C8_Witness ==
    /\ lastOp["mA"].op = "setup"
    /\ lastOp["mA"].fresh
    /\ dom["mA"].saveButton
    /\ dom["mA"].presetSelect
    /\ Len(presets["mA"]) = 1
    /\ selectOptions["mA"] # <<>>

\* C9: a missing button gets no handler (and without a save button no preset
\* is seeded); with the select missing, the selection empty or the selected
\* name not stored, an apply or animate click calls neither applyData nor
\* animateData and leaves the presets and the counter unchanged.
C9_FailuresAreNoOps ==
    \A m \in Managers :
        /\ listeners[m].setup =>
              /\ listeners[m].save = dom[m].saveButton
              /\ listeners[m].apply = dom[m].applyButton
              /\ listeners[m].animate = dom[m].animateButton
              /\ ~dom[m].saveButton => (presetCounter[m] = 0 /\ clickNames[m] = <<>>)
        /\ (lastOp[m].op \in {"applyClick", "animateClick"}
              /\ (~dom[m].presetSelect \/ lastOp[m].name = <<>>
                     \/ ~HasOwn(presets[m], lastOp[m].name)))
           => /\ lastOp[m].applied = <<>>
              /\ lastOp[m].animated = <<>>
              /\ ~lastOp[m].storeChanged

\* What is left of C9 when the selected name is none that every object
\* inherits from Object.prototype
C9_FailuresAreNoOpsOwnNames ==
    \A m \in Managers :
        (lastOp[m].op \in {"applyClick", "animateClick"}
              /\ lastOp[m].name \notin ObjectPrototypeNames
              /\ (~dom[m].presetSelect \/ lastOp[m].name = <<>>
                     \/ ~HasOwn(presets[m], lastOp[m].name)))
           => /\ lastOp[m].applied = <<>>
              /\ lastOp[m].animated = <<>>
              /\ ~lastOp[m].storeChanged

-----------------------------------------------------------------------------
(* Claims about the records of parsePath *)

\* C11: parsePath returns one record per command letter of the input, in
\* input order; a record's fields are those of its letter (x,y for M and L;
\* x1,y1,x2,y2,x,y for C; rx,ry,xAxisRotation,largeArcFlag,sweepFlag,x,y
\* for A; none for Z) and the j-th field holds the number of the j-th
\* argument.
C11_RecordPerCommand ==
    pc # "input" =>
        /\ Len(parsed) = Len(inputDesc)
        /\ \A i \in 1..Len(inputDesc) :
              LET seg == inputDesc[i]
                  fields == Fields(seg.letter)
              IN /\ parsed[i].command = seg.letter
                 /\ \A f \in AllFields \ {fields[j] : j \in 1..Len(fields)} :
                       parsed[i][f] = Undefined
                 /\ \A j \in 1..Len(fields) :
                       (j <= Len(seg.toks) /\ IsNumeral(seg.toks[j]))
                           => parsed[i][fields[j]] = ToNumber(seg.toks[j])
                 /\ seg \in WellFormedSegs =>
                       \A j \in 1..Len(fields) :
                           \E base \in {0, 9} : parsed[i][fields[j]] = Num(ArgValue(base, j))

\* The two example strings have been parsed, or a string with an arc, a
\* cubic and a close
C11_Witness ==
    /\ pc = "parsed"
    /\ \/ /\ d["p1"] = <<"M", " ", "1", "0", ",", "1", "0", " ",
                         "L", " ", "2", "0", ",", "2", "0", " ", "Z">>
          /\ Len(parsed) = 3
          /\ parsed[1] = [EmptyObj("M") EXCEPT !.x = Num(10), !.y = Num(10)]
          /\ parsed[2] = [EmptyObj("L") EXCEPT !.x = Num(20), !.y = Num(20)]
          /\ parsed[3] = EmptyObj("Z")
       \/ /\ d["p1"] = <<"C", " ", "1", ",", "1", " ", "2", ",", "2", " ", "3", ",", "3">>
          /\ parsed = <<[EmptyObj("C") EXCEPT !.x1 = Num(1), !.y1 = Num(1),
                                               !.x2 = Num(2), !.y2 = Num(2),
                                               !.x = Num(3), !.y = Num(3)]>>

-----------------------------------------------------------------------------
(* Claims about names that were never saved *)

\* C12: for every name under which no savePreset has been performed on the
\* manager, after any saves under other names, getPreset(name) returns null.
C12_UnsavedIsNull ==
    \A m \in Managers :
        (lastOp[m].op = "getPreset" /\ ~HasOwn(presets[m], lastOp[m].name))
            => lastOp[m].data = "null"

\* What is left of C12 for the names Object.prototype does not define
C12_UnsavedOwnNameIsNull ==
    \A m \in Managers :
        (lastOp[m].op = "getPreset" /\ ~HasOwn(presets[m], lastOp[m].name)
            /\ lastOp[m].name \notin ObjectPrototypeNames)
            => lastOp[m].data = "null"

-----------------------------------------------------------------------------
(* Claims about dragging *)

\* Neither closure variable of the editor's drag state is set
Idle(e) == ~isDragging[e] /\ activeMarker[e] = NoMarker

\* C13: an editor starts idle, leaves idle only by a pointer-down on one of
\* its markers, and is idle after every pointer-up, which is the only way
\* back; a pointer-down that misses every marker changes nothing; a
\* pointer-move on an idle editor leaves its 'd' attribute and its markers
\* unchanged, so a pointer-move changes the attribute only while armed.
C13_DragStateMachine ==
    /\ \A e \in Editors : Idle(e)
    /\ [][\A e \in Editors :
            /\ (Idle(e) /\ ~Idle(e)') => event' = Event("downHit", e)
            /\ event' = Event("downHit", e) =>
                  (isDragging'[e] /\ activeMarker'[e] # NoMarker
                      /\ activeMarker'[e] = hit'[e])
            /\ event'.kind = "up" => Idle(e)'
            /\ (~Idle(e) /\ Idle(e)') => event'.kind = "up"
            /\ event'.kind = "downMiss" =>
                  (d'[e] = d[e] /\ markers'[e] = markers[e]
                      /\ isDragging'[e] = isDragging[e]
                      /\ activeMarker'[e] = activeMarker[e])
            /\ (event'.kind = "move" /\ Idle(e)) =>
                  (d'[e] = d[e] /\ markers'[e] = markers[e])
            /\ (event'.kind = "move" /\ d'[e] # d[e]) => ~Idle(e)
       ]_vars

\* A pointer-move of an armed editor has rewritten the attribute
C13_Witness ==
    /\ event.kind = "move"
    /\ isDragging["p1"]
    /\ lastCall["p1"].op = "updatePath"
    /\ d["p1"] = lastCall["p1"].result
    /\ d["p1"] # lastCall["p1"].before

\* C15: with every pointer-down on a marker of the first editor, whatever
\* pointer events and calls on the first editor follow, the second editor's
\* 'd' attribute, markers and drag state stay as init left them, although
\* its handlers run on every pointer-move and pointer-up of the document.
C15_OtherEditorUntouched ==
    /\ d["p2"] = Render(OtherDesc)
    /\ markers["p2"] = drawMarkers(parsePath(Render(OtherDesc)))
    /\ ~isDragging["p2"]
    /\ activeMarker["p2"] = NoMarker
    /\ lastCall["p2"] = NoCall

\* Two pointer-moves have dragged a marker of the first editor
C15_Witness ==
    /\ event.kind = "move"
    /\ hit["p1"] # NoMarker
    /\ hit["p2"] = NoMarker
    /\ edits = 2
    /\ d["p1"] = lastCall["p1"].result
    /\ markers["p2"] # <<>>

\* The point type a marker is tagged with
TaggedPointType(marker) ==
    IF marker.pointType = "null" THEN "endpoint" ELSE marker.pointType

\* C16: every pointer-move between a pointer-down on a marker and the next
\* pointer-up calls updatePath with the data-index and the point type that
\* marker carried, whatever the markers group holds by then, and the update
\* changes no other command and no other point of that command.
C16_DragKeepsTarget ==
    [][\A e \in Editors :
          (event'.kind = "move" /\ hit[e] # NoMarker) =>
              LET call == lastCall'[e]
                  before == parsePath(d[e])
                  i == hit[e].index + 1
              IN /\ call.op \in {"updatePath", "updatePathThrew"}
                 /\ call.before = d[e]
                 /\ call.index = hit[e].index
                 /\ call.pointType = TaggedPointType(hit[e])
                 /\ call.op = "updatePath" =>
                       /\ Len(call.pathData) = Len(before)
                       /\ \A j \in 1..Len(before) : j # i => call.pathData[j] = before[j]
                       /\ call.pathData[i].command = before[i].command
                       /\ \A f \in AllFields \ SelectedFields(call.pointType) :
                             call.pathData[i][f] = before[i][f]
                       /\ \A f \in SelectedFields(call.pointType) :
                             call.pathData[i][f] \in {call.x, call.y}
                       /\ markers'[e] = drawMarkers(call.pathData)
    ]_vars

\* A second update of one point after the marker that was hit has been
\* replaced by the redraw
C16_Witness ==
    /\ event.kind = "move"
    /\ hit["p1"] # NoMarker
    /\ hit["p1"].pointType = "C2"
    /\ edits = 2
    /\ lastCall["p1"].op = "updatePath"
    /\ lastCall["p1"].index = hit["p1"].index
    /\ lastCall["p1"].pointType = "C2"
    /\ \A k \in 1..Len(markers["p1"]) : markers["p1"][k] # hit["p1"]

\* The command at the marker's data-index exists in the live attribute and
\* defines the pair the marker is tagged with
MarkerMatches(marker, str) ==
    /\ ValidIndex(str, marker.index)
    /\ LET o == parsePath(str)[marker.index + 1]
       IN \A f \in SelectedFields(TaggedPointType(marker)) : o[f] # Undefined

\* C17: in every state reached from init by pointer events, every marker's
\* data-index is an index into parsePath of the live attribute, the command
\* there defines the pair the marker is tagged with, and no updatePath of a
\* drag found its command missing.
C17_MarkersMatchAttribute ==
    \A e \in Editors :
        /\ \A k \in 1..Len(markers[e]) : MarkerMatches(markers[e][k], d[e])
        /\ lastCall[e].op # "updatePathThrew"

\* What is left of C17 on a path whose arguments are all numbers
C17_MarkersMatchAttributeNumeric ==
    inputDesc \notin {desc \in DragDescs :
                         \E i \in 1..Len(desc) : \E j \in 1..Len(desc[i].toks) :
                             ~IsNumeral(desc[i].toks[j])}
        => \A e \in Editors :
              /\ \A k \in 1..Len(markers[e]) : MarkerMatches(markers[e][k], d[e])
              /\ lastCall[e].op # "updatePathThrew"

\* Every command a drag's updatePath looked up was there
C17_DragFindsCommand ==
    \A e \in Editors :
        /\ \A k \in 1..Len(markers[e]) : ValidIndex(d[e], markers[e][k].index)
        /\ lastCall[e].op # "updatePathThrew"

-----------------------------------------------------------------------------
(* Claims about the markers group *)

\* The coordinate pairs a marker can stand for: the value of data-point-type
\* ("null": absent) and the two fields
MarkerPairs == {<<"null", "x", "y">>, <<"C1", "x1", "y1">>, <<"C2", "x2", "y2">>}

\* One marker for every pair that is defined on a command of pathData,
\* tagged with the command's position counted from 0
ExpectedMarkers(pathData) ==
    {Marker(ip[1] - 1, ip[2][1], pathData[ip[1]][ip[2][2]], pathData[ip[1]][ip[2][3]]) :
        ip \in {jq \in (1..Len(pathData)) \X MarkerPairs :
                    /\ pathData[jq[1]][jq[2][2]] # Undefined
                    /\ pathData[jq[1]][jq[2][3]] # Undefined}}

\* The path data the last drawMarkers of editor e was given: that of the
\* last updatePath or applyPathData, else the parse init made
DrawnData(e) ==
    IF lastCall[e].op \in {"updatePath", "applyPathData"}
    THEN lastCall[e].pathData
    ELSE parsePath(d[e])

\* C14: after drawMarkers(parsedPathData) the markers group holds exactly
\* one marker for every coordinate pair defined on a command, tagged with
\* the command's position and with 'C1', 'C2' or no point type, and nothing
\* else: three markers for a cubic command, one for the other commands with
\* an endpoint, none for a Z record.
C14_OneMarkerPerDefinedPair ==
    \A e \in Editors :
        lastCall[e].op # "updatePathThrew" =>
            LET data == DrawnData(e)
                group == markers[e]
            IN /\ {group[k] : k \in 1..Len(group)} = ExpectedMarkers(data)
               /\ Len(group) = Cardinality(ExpectedMarkers(data))
               /\ \A k \in 1..Len(group) :
                     /\ group[k].index \in 0..(Len(data) - 1)
                     /\ group[k].pointType \in {"null", "C1", "C2"}
               /\ \A i \in 1..Len(data) :
                     LET own == {k \in 1..Len(group) : group[k].index = i - 1}
                     IN /\ data[i] = EmptyObj(data[i].command) => own = {}
                        /\ (data[i].command \in {"C", "c"}
                              /\ \A f \in {"x", "y", "x1", "y1", "x2", "y2"} :
                                    data[i][f] # Undefined)
                           => {group[k].pointType : k \in own} = {"null", "C1", "C2"}
                        /\ (data[i].command \in {"M", "m", "L", "l", "A", "a"}
                              /\ data[i].x # Undefined /\ data[i].y # Undefined
                              /\ data[i].x1 = Undefined /\ data[i].x2 = Undefined)
                           => {group[k].pointType : k \in own} = {"null"}

\* applyPathData has replaced the markers of a longer path by the three
\* markers of one cubic command
C14_Witness ==
    /\ lastCall["p1"].op = "applyPathData"
    /\ Len(parsePath(lastCall["p1"].before)) >= 2
    /\ Len(lastCall["p1"].pathData) = 1
    /\ lastCall["p1"].pathData[1].command = "C"
    /\ Len(markers["p1"]) = 3
    /\ {markers["p1"][k].index : k \in 1..3} = {0}

-----------------------------------------------------------------------------
(* Claims about two managers *)

\* What a manager's interface shows of a presets object and a counter
Observed(obj, counter) ==
    <<getPresetNames(obj), [name \in Names |-> getPreset(obj, name)], counter>>

\* C18: in every interleaving of savePreset calls, setups and save clicks
\* on two managers, a step that saves on one manager leaves the other
\* manager's names, getPreset results and counter unchanged: a manager's
\* store changes only by an operation on that manager.
C18_ManagersShareNoState ==
    [][\A m \in Managers :
          /\ (presets'[m] # presets[m] \/ presetCounter'[m] # presetCounter[m]) =>
                /\ lastOp'[m].op \in {"savePreset", "saveClick", "setup"}
                /\ lastOp'[m].storeChanged
                /\ \A o \in Managers \ {m} :
                      /\ presets'[o] = presets[o]
                      /\ presetCounter'[o] = presetCounter[o]
                      /\ lastOp'[o] = lastOp[o]
          /\ (\E o \in Managers \ {m} : lastOp'[o] # lastOp[o]) =>
                Observed(presets'[m], presetCounter'[m])
                    = Observed(presets[m], presetCounter[m])
    ]_vars

\* Both managers have stored presets and have counted differently
C18_Witness ==
    /\ lastOp["mA"].op = "saveClick"
    /\ presetCounter["mA"] = 2
    /\ presetCounter["mB"] = 1
    /\ presets["mB"] # <<>>
    /\ getPresetNames(presets["mA"]) # getPresetNames(presets["mB"])

=============================================================================
